---- MODULE Spec2Model ----
(***************************************************************************)
(* Model of the fleet orchestration code of                                *)
(* src/Fabric/Infrastructure Orchestration Platform.py:                    *)
(*   - execute_task_on_servers / execute_on_server (thread-pool fan-out    *)
(*     with per-server retries),                                           *)
(*   - rolling_restart (batch-wise stop / start / health check),           *)
(*   - check_group_health (80% health judgment),                           *)
(*   - disaster_recovery (failover to the backup group),                   *)
(*   - substitute_variables and run_playbook,                              *)
(* of DeploymentManager.deploy of                                          *)
(* src/Fabric/Application Deployment Pipeline.py, and of                   *)
(* CICDWebhookManager.deployment_pipeline of                               *)
(* src/Requests/CICD Pipeline Webhook Manager.py.                          *)
(*                                                                         *)
(* The remote transport (fabric.Connection) is the environment.  One call  *)
(* c.run(..., warn=True) has three outcomes: it returns exit code zero,    *)
(* it returns a nonzero exit code, or it raises (Fabric opens the SSH      *)
(* connection lazily inside run, so a host that cannot be reached or a     *)
(* transport that drops raises there).  Constructing Connection(server)    *)
(* either succeeds or raises (malformed host string / configuration).      *)
(* Closing a connection is taken not to raise.                             *)
(***************************************************************************)
EXTENDS Integers, Sequences, FiniteSets, TLC

(***************************************************************************)
(* Bounds of the model.                                                    *)
(***************************************************************************)
MaxTargets == 2
MaxRetries == 2
MaxServers == 5
MaxBatch == 5
MaxGroup == 5
MaxFailoverGroup == 2
MaxServices == 2
MaxPieces == 2
MaxTasks == 2
MaxPlaybookTargets == 2
MaxTaskRetries == 1
MaxDeployServers == 2
MaxPolls == 2

\* ThreadPoolExecutor(max_workers=10)
max_workers == 10

\* `return health_percentage >= 80`
health_threshold == 80

\* Outcomes of one c.run call.
RunOutcomes == {"zero", "nonzero", "raise"}

\* Outcomes of Connection(server) and of the code before the retry loop.
ConnectOutcomes == {"ok", "raise"}

VARIABLES
    servers,      \* the list of target servers handed to the fan-out
    retries,      \* task.retries
    submitted,    \* number of futures submitted by the main thread so far
    queue,        \* the executor's work queue (futures not yet picked up)
    fpc,          \* per future: position of its execute_on_server call
    attempt,      \* per future: the loop variable `attempt`
    runs,         \* per future: number of c.run calls made
    sleeps,       \* per future: number of time.sleep(task.delay) calls made
    seen,         \* per future: the set of c.run outcomes observed
    outcome,      \* per future: the dict returned (status and attempt count)
    yielded,      \* futures already yielded by as_completed
    results,      \* the list `results` of execute_task_on_servers
    mpc,          \* the main thread: "running", "returned" or "raised"
    \* rolling_restart
    rr_servers,   \* self.server_groups[server_group].servers
    batch_size,   \* the parameter batch_size
    i,            \* the loop variable i of range(0, len(servers), batch_size)
    j,            \* position of the inner `for server in batch` loops (1-based)
    rpc,          \* position of rolling_restart
    health_ok,    \* the local health_ok
    cmdlog,       \* every command issued through c.run, in order
    rr_result,    \* "running", "True", "False" or "raised"
    batches,      \* every value the local `batch` has taken, in order
    \* check_group_health
    hg_servers,   \* self.server_groups[group_name].servers
    hidx,         \* number of servers the for loop has visited
    healthy_servers, \* the local healthy_servers
    probes,       \* the outcome of the uptime probe of every visited server
    health_result, \* "pending", "True", "False" or "ZeroDivisionError"
    \* disaster_recovery
    primary_servers, \* self.server_groups[primary_group].servers
    backup_servers,  \* self.server_groups[backup_group].servers
    services,        \* backup_group_obj.variables.get('services', ...)
    primary_healthy, \* the local primary_healthy ("unknown" before it is set)
    backup_healthy,  \* the local backup_healthy ("unknown" before it is set)
    confirmation_warned, \* "manual confirmation required" has been printed
    svc,             \* position of `for service in services` (1-based)
    dr_pc,           \* position of disaster_recovery
    dr_log,          \* every group.run command issued to the backup servers
    dr_result,       \* "running", "True", "refused" or "raised"
    \* the caller
    \* substitute_variables
    command,      \* the local `command`, a string as a sequence of characters
    original_command, \* the value of `command` at the call
    variables,    \* the dict `variables` as the list of its items, in order
    var_idx,      \* number of items the for loop has visited
    sub_pc,       \* "idle", "loop" or "returned"
    \* run_playbook
    tasks,        \* playbook.tasks: the list of tasks (name and retries)
    target_servers, \* the local target_servers
    task_idx,     \* number of tasks the for loop has finished
    playbook_results, \* the dict `results` of run_playbook: task name -> list
    task_history, \* the list returned by every call made, in call order
    pb_pc,        \* "idle", "loop", "call", "returned" or "raised"
    \* DeploymentManager.deploy
    dp_servers,   \* self.servers
    backup_dir,   \* the local backup_dir of deploy: "None" or "dir"
    dp_pc,        \* the step deploy is in
    dp_cmd,       \* position in the command list (or server list) of the step
    failed_servers, \* the local failed_servers of health_check
    failed_step,  \* the step whose exception the handler caught, or "none"
    dp_log,       \* every remote command issued, in order
    dp_result,    \* "running", "returned" or "raised"
    \* CICDWebhookManager.deployment_pipeline
    environment,  \* the parameter environment
    step_idx,     \* position of `for step in pipeline_steps` (1-based)
    cp_pc,        \* "idle", "trigger", "poll", "return" or "returned"
    pipeline_results, \* the list `results` of deployment_pipeline
    triggered,    \* the job of every trigger_jenkins_build call made, in order
    polls,        \* per call made: the number of get_build_status calls
    cancel_requested \* the caller of a running operation wants it cancelled

fleetVars == <<servers, retries, submitted, queue, fpc, attempt, runs, sleeps,
               seen, outcome, yielded, results, mpc>>

rolloutVars == <<rr_servers, batch_size, i, j, rpc, health_ok, cmdlog,
                 rr_result, batches>>

healthVars == <<hg_servers, hidx, healthy_servers, probes, health_result>>

failoverVars == <<primary_servers, backup_servers, services, primary_healthy,
                  backup_healthy, confirmation_warned, svc, dr_pc, dr_log,
                  dr_result>>

substVars == <<command, original_command, variables, var_idx, sub_pc>>

playbookVars == <<tasks, target_servers, task_idx, playbook_results,
                  task_history, pb_pc>>

deployVars == <<dp_servers, backup_dir, dp_pc, dp_cmd, failed_servers,
                failed_step, dp_log, dp_result>>

pipelineVars == <<environment, step_idx, cp_pc, pipeline_results, triggered,
                  polls>>

vars == <<fleetVars, rolloutVars, healthVars, failoverVars, substVars,
    playbookVars,
    deployVars,
    pipelineVars,
    cancel_requested>>

nonSubstVars == <<fleetVars, rolloutVars, healthVars, failoverVars,
    playbookVars,
    deployVars,
    pipelineVars,
    cancel_requested>>

\* Everything run_playbook and the fan-out it calls leave alone.
nonPlaybookVars == <<rolloutVars, healthVars, failoverVars, substVars,
    deployVars,
    pipelineVars,
    cancel_requested>>

nonDeployVars == <<fleetVars, rolloutVars, healthVars, failoverVars,
    substVars, playbookVars,
    pipelineVars,
    cancel_requested>>

nonPipelineVars == <<fleetVars, rolloutVars, healthVars, failoverVars,
    substVars, playbookVars, deployVars, cancel_requested>>

nonFleetVars == <<rolloutVars, healthVars, failoverVars, substVars,
    playbookVars,
    deployVars,
    pipelineVars,
    cancel_requested>>

nonRolloutVars == <<fleetVars, healthVars, failoverVars, substVars,
    playbookVars,
    deployVars,
    pipelineVars,
    cancel_requested>>

nonHealthVars == <<fleetVars, rolloutVars, failoverVars, substVars,
    playbookVars,
    deployVars,
    pipelineVars,
    cancel_requested>>

nonFailoverVars == <<fleetVars, rolloutVars, substVars,
    playbookVars,
    deployVars,
    pipelineVars,
    cancel_requested>>

Futures == 1..Len(servers)

NoOutcome == [status |-> "pending", attempts |-> 0]

\* The value of a function `execute_on_server` that falls off its end.
NoneResult == [status |-> "None", attempts |-> 0]

(***************************************************************************)
(* execute_on_server, lines 86-121: what one iteration of the retry loop   *)
(* does with the outcome rc of c.run on iteration `att` of                 *)
(* range(task.retries + 1).  "return" carries the status of the returned   *)
(* dict, "sleep" is time.sleep(task.delay) followed by continue.           *)
(***************************************************************************)
\* Variants of AttemptStep with one branch changed.
\* A nonzero exit is reported as failed at once, whatever retries remain.
AttemptStep_NoRetry(rc, att, r) ==
    IF rc = "zero"
    THEN [next |-> "return", status |-> "success"]
    ELSE IF rc = "nonzero"
         THEN [next |-> "return", status |-> "failed"]
         ELSE IF att < r
              THEN [next |-> "sleep", status |-> "pending"]
              ELSE [next |-> "return", status |-> "error"]

\* An exit code of zero is retried like a failure while retries remain.
AttemptStep_RetryOnZero(rc, att, r) ==
    IF rc = "zero" /\ att >= r
    THEN [next |-> "return", status |-> "success"]
    ELSE IF rc \in {"zero", "nonzero"}
         THEN IF att < r
              THEN [next |-> "sleep", status |-> "pending"]
              ELSE [next |-> "return", status |-> "failed"]
         ELSE IF att < r
              THEN [next |-> "sleep", status |-> "pending"]
              ELSE [next |-> "return", status |-> "error"]

\* Off by one in the exception handler: attempt <= task.retries.
AttemptStep_SleepAfterLast(rc, att, r) ==
    IF rc = "zero"
    THEN [next |-> "return", status |-> "success"]
    ELSE IF rc = "nonzero"
         THEN IF att < r
              THEN [next |-> "sleep", status |-> "pending"]
              ELSE [next |-> "return", status |-> "failed"]
         ELSE IF att <= r
              THEN [next |-> "sleep", status |-> "pending"]
              ELSE [next |-> "return", status |-> "error"]

AttemptStep(rc, att, r) ==
    IF rc = "zero"
    THEN [next |-> "return", status |-> "success"]
    ELSE IF rc = "nonzero"
         THEN IF att < r
              THEN [next |-> "sleep", status |-> "pending"]
              ELSE [next |-> "return", status |-> "failed"]
         ELSE IF att < r
              THEN [next |-> "sleep", status |-> "pending"]
              ELSE [next |-> "return", status |-> "error"]

\* range(task.retries + 1): is iteration index att inside the range?
InRange(att, r) == att >= 0 /\ att < r + 1

\* Worker threads that are running a work item.
Busy == {f \in Futures : fpc[f] \in {"picked", "loop", "sleep"}}

InitFleet(ns, rs) ==
    /\ servers \in {[k \in 1..n |-> k] : n \in ns}
    /\ retries \in rs
    /\ submitted = 0
    /\ queue = <<>>
    /\ fpc = [f \in Futures |-> "new"]
    /\ attempt = [f \in Futures |-> 0]
    /\ runs = [f \in Futures |-> 0]
    /\ sleeps = [f \in Futures |-> 0]
    /\ seen = [f \in Futures |-> {}]
    /\ outcome = [f \in Futures |-> NoOutcome]
    /\ yielded = {}
    /\ results = <<>>
    /\ mpc = "running"

\* Nothing is in progress in execute_task_on_servers.
IdleFleet ==
    /\ servers = <<>>
    /\ retries = 0
    /\ submitted = 0
    /\ queue = <<>>
    /\ fpc = <<>>
    /\ attempt = <<>>
    /\ runs = <<>>
    /\ sleeps = <<>>
    /\ seen = <<>>
    /\ outcome = <<>>
    /\ yielded = {}
    /\ results = <<>>
    /\ mpc = "idle"

\* Line 133: executor.submit(execute_on_server, server) for the next server.
Submit ==
    /\ mpc = "running"
    /\ submitted < Len(servers)
    /\ submitted' = submitted + 1
    /\ queue' = Append(queue, submitted + 1)
    /\ fpc' = [fpc EXCEPT ![submitted + 1] = "queued"]
    /\ UNCHANGED <<servers, retries, attempt, runs, sleeps, seen, outcome,
                   yielded, results, mpc>>
    /\ UNCHANGED nonFleetVars

\* Variant of WorkerTake: a worker whose runner sleeps between two attempts
\* counts as free.
WorkerTake_SleeperFreesWorker(f) ==
    /\ queue # <<>>
    /\ f = Head(queue)
    /\ Cardinality({g \in Futures : fpc[g] \in {"picked", "loop"}}) < max_workers
    /\ queue' = Tail(queue)
    /\ fpc' = [fpc EXCEPT ![f] = "picked"]
    /\ UNCHANGED <<servers, retries, submitted, attempt, runs, sleeps, seen,
                   outcome, yielded, results, mpc>>
    /\ UNCHANGED nonFleetVars

\* A worker thread of the pool takes the oldest work item.
WorkerTake(f) ==
    /\ queue # <<>>
    /\ f = Head(queue)
    /\ Cardinality(Busy) < max_workers
    /\ queue' = Tail(queue)
    /\ fpc' = [fpc EXCEPT ![f] = "picked"]
    /\ UNCHANGED <<servers, retries, submitted, attempt, runs, sleeps, seen,
                   outcome, yielded, results, mpc>>
    /\ UNCHANGED nonFleetVars

\* Lines 80-86 and 123-128: Connection(server), substitute_variables and the
\* entry into the for loop; an exception here is caught by the outer handler.
EnterConnection(f, co) ==
    /\ fpc[f] = "picked"
    /\ IF co = "raise"
       THEN /\ fpc' = [fpc EXCEPT ![f] = "done"]
            /\ outcome' = [outcome EXCEPT
                   ![f] = [status |-> "connection_error", attempts |-> 0]]
       ELSE IF InRange(0, retries)
            THEN /\ fpc' = [fpc EXCEPT ![f] = "loop"]
                 /\ outcome' = outcome
            ELSE /\ fpc' = [fpc EXCEPT ![f] = "done"]
                 /\ outcome' = [outcome EXCEPT ![f] = NoneResult]
    /\ attempt' = [attempt EXCEPT ![f] = 0]
    /\ UNCHANGED <<servers, retries, submitted, queue, runs, sleeps, seen,
                   yielded, results, mpc>>
    /\ UNCHANGED nonFleetVars

\* Lines 87-121: one c.run call and the branch taken on its outcome.
RunAttempt(f, rc) ==
    /\ fpc[f] = "loop"
    /\ runs' = [runs EXCEPT ![f] = @ + 1]
    /\ seen' = [seen EXCEPT ![f] = @ \cup {rc}]
    /\ LET step == AttemptStep(rc, attempt[f], retries) IN
       IF step.next = "return"
       THEN /\ fpc' = [fpc EXCEPT ![f] = "done"]
            /\ outcome' = [outcome EXCEPT
                   ![f] = [status |-> step.status, attempts |-> attempt[f] + 1]]
            /\ sleeps' = sleeps
       ELSE /\ fpc' = [fpc EXCEPT ![f] = "sleep"]
            /\ sleeps' = [sleeps EXCEPT ![f] = @ + 1]
            /\ outcome' = outcome
    /\ UNCHANGED <<servers, retries, submitted, queue, attempt, yielded,
                   results, mpc>>
    /\ UNCHANGED nonFleetVars

\* Lines 99-100 / 113-114: time.sleep returns, continue takes the next value
\* of range(task.retries + 1); past the end of the range the function ends
\* without a return statement.
SleepDone(f) ==
    /\ fpc[f] = "sleep"
    /\ attempt' = [attempt EXCEPT ![f] = @ + 1]
    /\ IF InRange(attempt[f] + 1, retries)
       THEN /\ fpc' = [fpc EXCEPT ![f] = "loop"]
            /\ outcome' = outcome
       ELSE /\ fpc' = [fpc EXCEPT ![f] = "done"]
            /\ outcome' = [outcome EXCEPT ![f] = NoneResult]
    /\ UNCHANGED <<servers, retries, submitted, queue, runs, sleeps, seen,
                   yielded, results, mpc>>
    /\ UNCHANGED nonFleetVars

\* Lines 136-148: as_completed yields a finished future that it has not
\* yielded yet; its result is appended, then result['status'] is read (a
\* None result raises TypeError out of execute_task_on_servers).
CollectedEntry(f) == [server |-> servers[f], status |-> outcome[f].status]

\* Variant of AppendResult that keeps no entry for a connection error.
AppendResult_DropConnectionError(res, f) ==
    IF outcome[f].status = "connection_error"
    THEN res
    ELSE Append(res, CollectedEntry(f))

\* Line 138: results.append(result)
AppendResult(res, f) == Append(res, CollectedEntry(f))

\* Variant of AsCompleted: the exception behind a connection error is not
\* caught in the worker, so future.result() raises it in the main thread.
AsCompleted_ConnectionErrorRaises(f) ==
    /\ mpc = "running"
    /\ submitted = Len(servers)
    /\ f \notin yielded
    /\ fpc[f] = "done"
    /\ yielded' = yielded \cup {f}
    /\ IF outcome[f].status = "connection_error"
       THEN results' = results /\ mpc' = "raised"
       ELSE /\ results' = AppendResult(results, f)
            /\ mpc' = IF outcome[f].status = "None" THEN "raised" ELSE "running"
    /\ UNCHANGED <<servers, retries, submitted, queue, fpc, attempt, runs,
                   sleeps, seen, outcome>>
    /\ UNCHANGED nonFleetVars

AsCompleted(f) ==
    /\ mpc = "running"
    /\ submitted = Len(servers)
    /\ f \notin yielded
    /\ fpc[f] = "done"
    /\ yielded' = yielded \cup {f}
    /\ results' = AppendResult(results, f)
    /\ mpc' = IF outcome[f].status = "None" THEN "raised" ELSE "running"
    /\ UNCHANGED <<servers, retries, submitted, queue, fpc, attempt, runs,
                   sleeps, seen, outcome>>
    /\ UNCHANGED nonFleetVars

\* Line 150: every future has been yielded; the pool is shut down and the
\* list is returned.
ReturnResults ==
    /\ mpc = "running"
    /\ submitted = Len(servers)
    /\ yielded = Futures
    /\ mpc' = "returned"
    /\ UNCHANGED <<servers, retries, submitted, queue, fpc, attempt, runs,
                   sleeps, seen, outcome, yielded, results>>
    /\ UNCHANGED nonFleetVars

NextFleet ==
    \/ Submit
    \/ \E f \in Futures : WorkerTake(f)
    \/ \E f \in Futures : \E co \in ConnectOutcomes : EnterConnection(f, co)
    \/ \E f \in Futures : \E rc \in RunOutcomes : RunAttempt(f, rc)
    \/ \E f \in Futures : SleepDone(f)
    \/ \E f \in Futures : AsCompleted(f)
    \/ ReturnResults

(***************************************************************************)
(* rolling_restart, lines 158-214.  Every c.run call is logged in cmdlog.  *)
(* None of the calls is inside a try: an exception of Connection or c.run  *)
(* leaves rolling_restart.                                                 *)
(***************************************************************************)
Min(a, b) == IF a < b THEN a ELSE b

\* Variant of Batch: the slice takes one server too many.
Batch_OneTooMany ==
    SubSeq(rr_servers, i + 1, Min(i + batch_size + 1, Len(rr_servers)))

\* batch = servers[i:i + batch_size]
Batch == SubSeq(rr_servers, i + 1, Min(i + batch_size, Len(rr_servers)))

LogEntry(s, cmd, rc) == [server |-> s, cmd |-> cmd, rc |-> rc]

\* Nothing is in progress in rolling_restart (another operation is running).
IdleRollout ==
    /\ rr_servers = <<>>
    /\ batch_size = 1
    /\ i = 0
    /\ j = 1
    /\ rpc = "idle"
    /\ health_ok = TRUE
    /\ cmdlog = <<>>
    /\ rr_result = "running"
    /\ batches = <<>>

InitRollout(ns, bs) ==
    /\ rr_servers \in {[k \in 1..n |-> k] : n \in ns}
    /\ batch_size \in bs
    /\ i = 0
    /\ j = 1
    /\ rpc = "loop"
    /\ health_ok = TRUE
    /\ cmdlog = <<>>
    /\ rr_result = "running"
    /\ batches = <<>>

\* Lines 165-166: the head of `for i in range(0, len(servers), batch_size)`.
\* A step of zero raises ValueError; a negative step gives an empty range.
BeginBatch ==
    /\ rpc = "loop"
    /\ IF batch_size = 0
       THEN rpc' = "end" /\ rr_result' = "raised"
       ELSE IF batch_size > 0 /\ i < Len(rr_servers)
            THEN rpc' = "stop" /\ rr_result' = rr_result
            ELSE rpc' = "end" /\ rr_result' = "True"
    /\ batches' = IF batch_size > 0 /\ i < Len(rr_servers)
                  THEN Append(batches, Batch)
                  ELSE batches
    /\ j' = 1
    /\ UNCHANGED <<rr_servers, batch_size, i, health_ok, cmdlog>>
    /\ UNCHANGED nonRolloutVars

\* Variant of StopService: the stop loop ends after its first server.
StopService_OnlyFirst(rc) ==
    /\ rpc = "stop"
    /\ cmdlog' = Append(cmdlog, LogEntry(Batch[j], "stop", rc))
    /\ IF rc = "raise"
       THEN rpc' = "end" /\ rr_result' = "raised" /\ j' = j
       ELSE rpc' = "stop_wait" /\ rr_result' = rr_result /\ j' = 1
    /\ UNCHANGED <<rr_servers, batch_size, i, health_ok, batches>>
    /\ UNCHANGED nonRolloutVars

\* Variant of StopService: a failed stop returns False, as a failed start
\* does.
StopService_AbortOnNonzero(rc) ==
    /\ rpc = "stop"
    /\ cmdlog' = Append(cmdlog, LogEntry(Batch[j], "stop", rc))
    /\ IF rc = "raise"
       THEN rpc' = "end" /\ rr_result' = "raised" /\ j' = j
       ELSE IF rc = "nonzero"
            THEN rpc' = "end" /\ rr_result' = "False" /\ j' = j
            ELSE /\ rr_result' = rr_result
                 /\ IF j < Len(Batch)
                    THEN rpc' = "stop" /\ j' = j + 1
                    ELSE rpc' = "stop_wait" /\ j' = 1
    /\ UNCHANGED <<rr_servers, batch_size, i, health_ok, batches>>
    /\ UNCHANGED nonRolloutVars

\* Lines 172-176: systemctl stop on the next server of the batch; a nonzero
\* exit only prints a warning.
StopService(rc) ==
    /\ rpc = "stop"
    /\ cmdlog' = Append(cmdlog, LogEntry(Batch[j], "stop", rc))
    /\ IF rc = "raise"
       THEN rpc' = "end" /\ rr_result' = "raised" /\ j' = j
       ELSE /\ rr_result' = rr_result
            /\ IF j < Len(Batch)
               THEN rpc' = "stop" /\ j' = j + 1
               ELSE rpc' = "stop_wait" /\ j' = 1
    /\ UNCHANGED <<rr_servers, batch_size, i, health_ok, batches>>
    /\ UNCHANGED nonRolloutVars

\* Line 179: time.sleep(5)
StopWait ==
    /\ rpc = "stop_wait"
    /\ rpc' = "start"
    /\ UNCHANGED <<rr_servers, batch_size, i, j, health_ok, cmdlog, rr_result, batches>>
    /\ UNCHANGED nonRolloutVars

\* Variant of StartFails: a failed start only warns, as a failed stop does.
StartFails_WarnOnly(rc) == FALSE

\* Lines 186-188: `if result.return_code != 0: return False`
StartFails(rc) == rc = "nonzero"

\* Variant of StartService: after a failed start the loop still starts the
\* remaining servers of the batch and returns False after the last one.
StartService_FinishBatchFirst(rc) ==
    /\ rpc = "start"
    /\ cmdlog' = Append(cmdlog, LogEntry(Batch[j], "start", rc))
    /\ IF rc = "raise"
       THEN rpc' = "end" /\ rr_result' = "raised" /\ j' = j
       ELSE IF j < Len(Batch)
            THEN rpc' = "start" /\ rr_result' = rr_result /\ j' = j + 1
            ELSE IF \E m \in DOMAIN cmdlog' :
                       /\ cmdlog'[m].cmd = "start"
                       /\ cmdlog'[m].rc = "nonzero"
                 THEN rpc' = "end" /\ rr_result' = "False" /\ j' = j
                 ELSE rpc' = "health_wait" /\ rr_result' = rr_result /\ j' = 1
    /\ UNCHANGED <<rr_servers, batch_size, i, health_ok, batches>>
    /\ UNCHANGED nonRolloutVars

\* Lines 183-188: systemctl start on the next server of the batch.
StartService(rc) ==
    /\ rpc = "start"
    /\ cmdlog' = Append(cmdlog, LogEntry(Batch[j], "start", rc))
    /\ IF rc = "raise"
       THEN rpc' = "end" /\ rr_result' = "raised" /\ j' = j
       ELSE IF StartFails(rc)
            THEN rpc' = "end" /\ rr_result' = "False" /\ j' = j
            ELSE /\ rr_result' = rr_result
                 /\ IF j < Len(Batch)
                    THEN rpc' = "start" /\ j' = j + 1
                    ELSE rpc' = "health_wait" /\ j' = 1
    /\ UNCHANGED <<rr_servers, batch_size, i, health_ok, batches>>
    /\ UNCHANGED nonRolloutVars

\* Lines 192-194: time.sleep(10); health_ok = True
HealthWait ==
    /\ rpc = "health_wait"
    /\ rpc' = "health"
    /\ health_ok' = TRUE
    /\ UNCHANGED <<rr_servers, batch_size, i, j, cmdlog, rr_result, batches>>
    /\ UNCHANGED nonRolloutVars

\* Variant of HealthProbe: health_ok is assigned the outcome of the probe, so
\* only the last probe of the batch counts.
HealthProbe_LastProbeWins(rc) ==
    /\ rpc = "health"
    /\ cmdlog' = Append(cmdlog, LogEntry(Batch[j], "is-active", rc))
    /\ IF rc = "raise"
       THEN rpc' = "end" /\ rr_result' = "raised" /\ j' = j
                         /\ health_ok' = health_ok
       ELSE /\ rr_result' = rr_result
            /\ health_ok' = (rc = "zero")
            /\ IF j < Len(Batch)
               THEN rpc' = "health" /\ j' = j + 1
               ELSE rpc' = "gate" /\ j' = 1
    /\ UNCHANGED <<rr_servers, batch_size, i, batches>>
    /\ UNCHANGED nonRolloutVars

\* Lines 195-200: systemctl is-active on the next server of the batch.
HealthProbe(rc) ==
    /\ rpc = "health"
    /\ cmdlog' = Append(cmdlog, LogEntry(Batch[j], "is-active", rc))
    /\ IF rc = "raise"
       THEN rpc' = "end" /\ rr_result' = "raised" /\ j' = j
                         /\ health_ok' = health_ok
       ELSE /\ rr_result' = rr_result
            /\ health_ok' = IF rc = "nonzero" THEN FALSE ELSE health_ok
            /\ IF j < Len(Batch)
               THEN rpc' = "health" /\ j' = j + 1
               ELSE rpc' = "gate" /\ j' = 1
    /\ UNCHANGED <<rr_servers, batch_size, i, batches>>
    /\ UNCHANGED nonRolloutVars

\* Variant of GateFails: the health flag is not consulted.
GateFails_Ignored(ok) == FALSE

\* Line 202: `if not health_ok`
GateFails(ok) == ~ok

\* Variant of HealthGate: the inter-batch wait is taken after every batch
\* that passed, the last one included.
HealthGate_AlwaysWaits ==
    /\ rpc = "gate"
    /\ IF GateFails(health_ok)
       THEN rpc' = "end" /\ rr_result' = "False" /\ i' = i
       ELSE rpc' = "batch_wait" /\ rr_result' = rr_result /\ i' = i
    /\ UNCHANGED <<rr_servers, batch_size, j, health_ok, cmdlog, batches>>
    /\ UNCHANGED nonRolloutVars

\* Variant of HealthGate: a batch that fails its gate is processed again.
HealthGate_RetryBatch ==
    /\ rpc = "gate"
    /\ IF GateFails(health_ok)
       THEN rpc' = "stop" /\ rr_result' = rr_result /\ i' = i
       ELSE /\ rr_result' = rr_result
            /\ IF i + batch_size < Len(rr_servers)
               THEN rpc' = "batch_wait" /\ i' = i
               ELSE rpc' = "loop" /\ i' = i + batch_size
    /\ UNCHANGED <<rr_servers, batch_size, j, health_ok, cmdlog, batches>>
    /\ UNCHANGED nonRolloutVars

\* Lines 202-211: the health gate; either return False, or wait before the
\* next batch when one remains, or go to the next value of the range.
HealthGate ==
    /\ rpc = "gate"
    /\ IF GateFails(health_ok)
       THEN rpc' = "end" /\ rr_result' = "False" /\ i' = i
       ELSE /\ rr_result' = rr_result
            /\ IF i + batch_size < Len(rr_servers)
               THEN rpc' = "batch_wait" /\ i' = i
               ELSE rpc' = "loop" /\ i' = i + batch_size
    /\ UNCHANGED <<rr_servers, batch_size, j, health_ok, cmdlog, batches>>
    /\ UNCHANGED nonRolloutVars

\* Line 211: time.sleep(30), then the next value of the range.
BatchWait ==
    /\ rpc = "batch_wait"
    /\ rpc' = "loop"
    /\ i' = i + batch_size
    /\ UNCHANGED <<rr_servers, batch_size, j, health_ok, cmdlog, rr_result, batches>>
    /\ UNCHANGED nonRolloutVars

NextRollout ==
    \/ BeginBatch
    \/ \E rc \in RunOutcomes : StopService(rc)
    \/ StopWait
    \/ \E rc \in RunOutcomes : StartService(rc)
    \/ HealthWait
    \/ \E rc \in RunOutcomes : HealthProbe(rc)
    \/ HealthGate
    \/ BatchWait

(***************************************************************************)
(* check_group_health, lines 255-272.                                      *)
(***************************************************************************)
\* Nothing is in progress in check_group_health.
IdleHealth ==
    /\ hg_servers = <<>>
    /\ hidx = 0
    /\ healthy_servers = 0
    /\ probes = <<>>
    /\ health_result = "idle"

InitHealth(ns) ==
    /\ hg_servers \in {[k \in 1..n |-> k] : n \in ns}
    /\ hidx = 0
    /\ healthy_servers = 0
    /\ probes = <<>>
    /\ health_result = "pending"

\* Lines 260-267: the uptime probe of the next server; an exception is
\* swallowed by the bare except.
ProbeServer(rc) ==
    /\ health_result = "pending"
    /\ hidx < Len(hg_servers)
    /\ hidx' = hidx + 1
    /\ probes' = Append(probes, rc)
    /\ healthy_servers' = IF rc = "zero"
                          THEN healthy_servers + 1
                          ELSE healthy_servers
    /\ UNCHANGED <<hg_servers, health_result>>
    /\ UNCHANGED nonHealthVars

\* Variant of PercentageAtLeast80 with a strict comparison.
PercentageAtLeast80_Strict(h, n) == h * 100 > health_threshold * n

\* Lines 269 and 272: (healthy_servers / len(servers)) * 100 >= 80 for
\* n = len(servers) > 0.  The quotient is a rational number here; the IEEE
\* double evaluation of the source gives the same truth value for every
\* 0 <= h <= n <= 2000 (4/5 rounds to a double whose product with 100 rounds
\* to 80.0).
PercentageAtLeast80(h, n) == h * 100 >= health_threshold * n

\* Lines 269-272: the division raises ZeroDivisionError for an empty group.
JudgeHealth ==
    /\ health_result = "pending"
    /\ hidx = Len(hg_servers)
    /\ health_result' =
          IF Len(hg_servers) = 0
          THEN "ZeroDivisionError"
          ELSE IF PercentageAtLeast80(healthy_servers, Len(hg_servers))
               THEN "True"
               ELSE "False"
    /\ UNCHANGED <<hg_servers, hidx, healthy_servers, probes>>
    /\ UNCHANGED nonHealthVars

NextHealth ==
    \/ \E rc \in RunOutcomes : ProbeServer(rc)
    \/ JudgeHealth

(***************************************************************************)
(* disaster_recovery, lines 216-253.  The two calls of check_group_health  *)
(* are the steps ProbeServer and JudgeHealth above, first on the primary   *)
(* group, then on the backup group.  group.run has no warn=True: it raises *)
(* GroupException when the command fails on any server of the group.       *)
(* The construction of the ThreadingGroup is taken to succeed.             *)
(***************************************************************************)
\* Outcomes of one group.run call.
GroupOutcomes == {"ok", "raise"}

GroupEntry(service, cmd, rc) == [service |-> service, cmd |-> cmd, rc |-> rc]

\* Nothing is in progress in disaster_recovery.
IdleFailover ==
    /\ primary_servers = <<>>
    /\ backup_servers = <<>>
    /\ services = <<>>
    /\ primary_healthy = "unknown"
    /\ backup_healthy = "unknown"
    /\ confirmation_warned = FALSE
    /\ svc = 1
    /\ dr_pc = "idle"
    /\ dr_log = <<>>
    /\ dr_result = "running"

\* Lines 218-224: the state at the call check_group_health(primary_group).
\* The servers of the backup group are numbered after those of the primary.
InitFailover(ps, bs, ss) ==
    /\ primary_servers \in {[k \in 1..n |-> k] : n \in ps}
    /\ backup_servers \in {[k \in 1..n |-> Len(primary_servers) + k] : n \in bs}
    /\ services \in {[k \in 1..n |-> k] : n \in ss}
    /\ primary_healthy = "unknown"
    /\ backup_healthy = "unknown"
    /\ confirmation_warned = FALSE
    /\ svc = 1
    /\ dr_pc = "check_primary"
    /\ dr_log = <<>>
    /\ dr_result = "running"
    /\ hg_servers = primary_servers
    /\ hidx = 0
    /\ healthy_servers = 0
    /\ probes = <<>>
    /\ health_result = "pending"

\* Lines 224-225: check_group_health(primary_group) has ended; its value is
\* bound to primary_healthy and check_group_health(backup_group) is called.
\* A ZeroDivisionError of the check leaves disaster_recovery.
PrimaryChecked ==
    /\ dr_pc = "check_primary"
    /\ health_result \in {"True", "False", "ZeroDivisionError"}
    /\ IF health_result = "ZeroDivisionError"
       THEN /\ dr_pc' = "end"
            /\ dr_result' = "raised"
            /\ UNCHANGED <<primary_healthy, healthVars>>
       ELSE /\ dr_pc' = "check_backup"
            /\ dr_result' = dr_result
            /\ primary_healthy' = health_result
            /\ hg_servers' = backup_servers
            /\ hidx' = 0
            /\ healthy_servers' = 0
            /\ probes' = <<>>
            /\ health_result' = "pending"
    /\ UNCHANGED <<primary_servers, backup_servers, services, backup_healthy,
                   confirmation_warned, svc, dr_log>>
    /\ UNCHANGED nonFailoverVars

\* Variant of BackupRefused: the health of the backup group is not consulted.
BackupRefused_Never(h) == FALSE

\* Line 227: `if not backup_healthy`
BackupRefused(h) == h = "False"

\* Line 242: the head of `for service in services`.
ServiceLoop(k) == IF k <= Len(services) THEN "start" ELSE "dns"

\* Lines 225-242: check_group_health(backup_group) has ended; an unhealthy
\* backup group raises the refusal, a healthy primary only prints the
\* warning, and the activation of the backup servers begins.
BackupChecked ==
    /\ dr_pc = "check_backup"
    /\ health_result \in {"True", "False", "ZeroDivisionError"}
    /\ backup_healthy' = health_result
    /\ IF health_result = "ZeroDivisionError"
       THEN /\ dr_pc' = "end"
            /\ dr_result' = "raised"
            /\ confirmation_warned' = confirmation_warned
       ELSE IF BackupRefused(health_result)
            THEN /\ dr_pc' = "end"
                 /\ dr_result' = "refused"
                 /\ confirmation_warned' = confirmation_warned
            ELSE /\ dr_pc' = ServiceLoop(1)
                 /\ dr_result' = dr_result
                 /\ confirmation_warned' = (primary_healthy = "True")
    /\ svc' = 1
    /\ UNCHANGED <<primary_servers, backup_servers, services, primary_healthy,
                   dr_log>>
    /\ UNCHANGED healthVars
    /\ UNCHANGED nonFailoverVars

\* Line 244: group.run('sudo systemctl start ...') on the backup servers.
StartOnBackup(rc) ==
    /\ dr_pc = "start"
    /\ dr_log' = Append(dr_log, GroupEntry(services[svc], "start", rc))
    /\ IF rc = "raise"
       THEN dr_pc' = "end" /\ dr_result' = "raised"
       ELSE dr_pc' = "enable" /\ dr_result' = dr_result
    /\ UNCHANGED <<primary_servers, backup_servers, services, primary_healthy,
                   backup_healthy, confirmation_warned, svc>>
    /\ UNCHANGED healthVars
    /\ UNCHANGED nonFailoverVars

\* Line 245: group.run('sudo systemctl enable ...') on the backup servers,
\* then the next service.
EnableOnBackup(rc) ==
    /\ dr_pc = "enable"
    /\ dr_log' = Append(dr_log, GroupEntry(services[svc], "enable", rc))
    /\ IF rc = "raise"
       THEN dr_pc' = "end" /\ dr_result' = "raised" /\ svc' = svc
       ELSE dr_pc' = ServiceLoop(svc + 1) /\ dr_result' = dr_result
                                          /\ svc' = svc + 1
    /\ UNCHANGED <<primary_servers, backup_servers, services, primary_healthy,
                   backup_healthy, confirmation_warned>>
    /\ UNCHANGED healthVars
    /\ UNCHANGED nonFailoverVars

\* Lines 247-253: the simulated DNS update and `return True`.
FinishFailover ==
    /\ dr_pc = "dns"
    /\ dr_pc' = "end"
    /\ dr_result' = "True"
    /\ UNCHANGED <<primary_servers, backup_servers, services, primary_healthy,
                   backup_healthy, confirmation_warned, svc, dr_log>>
    /\ UNCHANGED healthVars
    /\ UNCHANGED nonFailoverVars

NextFailover ==
    \/ \E rc \in RunOutcomes : ProbeServer(rc)
    \/ JudgeHealth
    \/ PrimaryChecked
    \/ BackupChecked
    \/ \E rc \in GroupOutcomes : StartOnBackup(rc)
    \/ \E rc \in GroupOutcomes : EnableOnBackup(rc)
    \/ FinishFailover


(***************************************************************************)
(* substitute_variables, lines 152-156.  Strings are sequences of          *)
(* characters; a dict is the list of its items in iteration (insertion)    *)
(* order, with distinct keys.  A value is a string or an integer.          *)
(***************************************************************************)
\* f"{{{var_name}}}": the name between braces.
Token(name) == <<"{">> \o name \o <<"}">>

\* str(var_value)
Str(v) == IF v.kind = "int" THEN <<ToString(v.val)>> ELSE v.val

\* str.replace(old, new): every non-overlapping occurrence of old, found
\* from left to right, is replaced (old is never empty here).
RECURSIVE Replace(_, _, _)
Replace(str, old, new) ==
    IF Len(str) < Len(old)
    THEN str
    ELSE IF SubSeq(str, 1, Len(old)) = old
         THEN new \o Replace(SubSeq(str, Len(old) + 1, Len(str)), old, new)
         ELSE <<Head(str)>> \o Replace(Tail(str), old, new)

\* The pieces commands and values are made of: literal characters, a lone
\* brace, and the tokens of the names a, b and c.
Pieces ==
    {<<"x">>, <<"{">>, <<"}">>, Token(<<"a">>), Token(<<"b">>), Token(<<"c">>)}

RECURSIVE Strings(_)
Strings(n) ==
    IF n = 0
    THEN {<<>>}
    ELSE Strings(n - 1) \cup {s \o p : s \in Strings(n - 1), p \in Pieces}

\* The values a variable is bound to.
Values ==
    {[kind |-> "str", val |-> <<"x">>],
     [kind |-> "str", val |-> Token(<<"a">>)],
     [kind |-> "str", val |-> Token(<<"b">>)],
     [kind |-> "int", val |-> 7]}

\* The names that are bound (c never is).
Names == {<<"a">>, <<"b">>}

Item(n, v) == [name |-> n, value |-> v]

\* The dicts over Names, as item lists.
Dicts ==
    {<<>>}
    \cup {<<Item(n, v)>> : n \in Names, v \in Values}
    \cup {d \in {<<Item(n, v), Item(m, w)>> :
                     n \in Names, m \in Names, v \in Values, w \in Values} :
             d[1].name # d[2].name}

\* Nothing is in progress in substitute_variables.
IdleSubstitute ==
    /\ command = <<>>
    /\ original_command = <<>>
    /\ variables = <<>>
    /\ var_idx = 0
    /\ sub_pc = "idle"

InitSubstitute ==
    /\ command \in Strings(MaxPieces)
    /\ original_command = command
    /\ variables \in Dicts
    /\ var_idx = 0
    /\ sub_pc = "loop"

\* Lines 154-155: one iteration of `for var_name, var_value in
\* variables.items()`.
ReplaceVariable ==
    /\ sub_pc = "loop"
    /\ var_idx < Len(variables)
    /\ command' = Replace(command, Token(variables[var_idx + 1].name),
                          Str(variables[var_idx + 1].value))
    /\ var_idx' = var_idx + 1
    /\ UNCHANGED <<original_command, variables, sub_pc>>
    /\ UNCHANGED nonSubstVars

\* Line 156: return command
ReturnCommand ==
    /\ sub_pc = "loop"
    /\ var_idx = Len(variables)
    /\ sub_pc' = "returned"
    /\ UNCHANGED <<command, original_command, variables, var_idx>>
    /\ UNCHANGED nonSubstVars

NextSubstitute ==
    \/ ReplaceVariable
    \/ ReturnCommand


(***************************************************************************)
(* run_playbook, lines 45-74.  The call of execute_task_on_servers at line *)
(* 71 is the fan-out modelled above: StartTask enters it, the steps of     *)
(* NextFleet run it, CollectTask takes its return value.                   *)
(***************************************************************************)
TaskNames == {"install", "restart"}

Task(n, r) == [name |-> n, retries |-> r]

RECURSIVE TaskLists(_)
TaskLists(n) ==
    IF n = 0
    THEN {<<>>}
    ELSE TaskLists(n - 1)
         \cup {Append(l, Task(nm, r)) :
                  l \in {x \in TaskLists(n - 1) : Len(x) = n - 1},
                  nm \in TaskNames, r \in 0..MaxTaskRetries}

EmptyDict == [n \in {} |-> <<>>]

\* results[task.name] = task_results
DictSet(d, key, value) ==
    [n \in DOMAIN d \cup {key} |-> IF n = key THEN value ELSE d[n]]

\* Nothing is in progress in run_playbook.
IdlePlaybook ==
    /\ tasks = <<>>
    /\ target_servers = <<>>
    /\ task_idx = 0
    /\ playbook_results = EmptyDict
    /\ task_history = <<>>
    /\ pb_pc = "idle"

\* Lines 47-68: the playbook is loaded, the target servers are looked up and
\* results = {}.
InitPlaybook ==
    /\ tasks \in TaskLists(MaxTasks)
    /\ target_servers \in {[k \in 1..n |-> k] : n \in 0..MaxPlaybookTargets}
    /\ task_idx = 0
    /\ playbook_results = EmptyDict
    /\ task_history = <<>>
    /\ pb_pc = "loop"

\* Lines 69-71: the next task of the list; execute_task_on_servers is called
\* with it and the target servers.
StartTask ==
    /\ pb_pc = "loop"
    /\ task_idx < Len(tasks)
    /\ pb_pc' = "call"
    /\ servers' = target_servers
    /\ retries' = tasks[task_idx + 1].retries
    /\ submitted' = 0
    /\ queue' = <<>>
    /\ fpc' = [f \in 1..Len(target_servers) |-> "new"]
    /\ attempt' = [f \in 1..Len(target_servers) |-> 0]
    /\ runs' = [f \in 1..Len(target_servers) |-> 0]
    /\ sleeps' = [f \in 1..Len(target_servers) |-> 0]
    /\ seen' = [f \in 1..Len(target_servers) |-> {}]
    /\ outcome' = [f \in 1..Len(target_servers) |-> NoOutcome]
    /\ yielded' = {}
    /\ results' = <<>>
    /\ mpc' = "running"
    /\ UNCHANGED <<tasks, target_servers, task_idx, playbook_results,
                   task_history>>
    /\ UNCHANGED nonPlaybookVars

\* Variant of CollectTask: the playbook ends at the first task that has an
\* outcome other than success.
CollectTask_StopOnFailure ==
    /\ pb_pc = "call"
    /\ mpc \in {"returned", "raised"}
    /\ IF mpc = "raised"
       THEN /\ pb_pc' = "raised"
            /\ UNCHANGED <<task_idx, playbook_results, task_history>>
       ELSE /\ pb_pc' = IF \E k \in DOMAIN results : results[k].status # "success"
                        THEN "returned"
                        ELSE "loop"
            /\ task_idx' = task_idx + 1
            /\ playbook_results' =
                  DictSet(playbook_results, tasks[task_idx + 1].name, results)
            /\ task_history' = Append(task_history, results)
    /\ servers' = <<>> /\ retries' = 0 /\ submitted' = 0 /\ queue' = <<>>
    /\ fpc' = <<>> /\ attempt' = <<>> /\ runs' = <<>> /\ sleeps' = <<>>
    /\ seen' = <<>> /\ outcome' = <<>> /\ yielded' = {} /\ results' = <<>>
    /\ mpc' = "idle"
    /\ UNCHANGED <<tasks, target_servers>>
    /\ UNCHANGED nonPlaybookVars

\* Lines 71-72: execute_task_on_servers has returned (or raised); the list
\* is stored under the task's name and the frame of the call is gone.
CollectTask ==
    /\ pb_pc = "call"
    /\ mpc \in {"returned", "raised"}
    /\ IF mpc = "raised"
       THEN /\ pb_pc' = "raised"
            /\ UNCHANGED <<task_idx, playbook_results, task_history>>
       ELSE /\ pb_pc' = "loop"
            /\ task_idx' = task_idx + 1
            /\ playbook_results' =
                  DictSet(playbook_results, tasks[task_idx + 1].name, results)
            /\ task_history' = Append(task_history, results)
    /\ servers' = <<>> /\ retries' = 0 /\ submitted' = 0 /\ queue' = <<>>
    /\ fpc' = <<>> /\ attempt' = <<>> /\ runs' = <<>> /\ sleeps' = <<>>
    /\ seen' = <<>> /\ outcome' = <<>> /\ yielded' = {} /\ results' = <<>>
    /\ mpc' = "idle"
    /\ UNCHANGED <<tasks, target_servers>>
    /\ UNCHANGED nonPlaybookVars

\* Line 74: return results
ReturnPlaybook ==
    /\ pb_pc = "loop"
    /\ task_idx = Len(tasks)
    /\ pb_pc' = "returned"
    /\ UNCHANGED <<tasks, target_servers, task_idx, playbook_results,
                   task_history>>
    /\ UNCHANGED fleetVars
    /\ UNCHANGED nonPlaybookVars

NextPlaybook ==
    \/ StartTask
    \/ NextFleet
    \/ CollectTask
    \/ ReturnPlaybook


(***************************************************************************)
(* DeploymentManager.deploy, src/Fabric/Application Deployment Pipeline.py *)
(* lines 126-155, with the steps it calls.  group.run and c.run without    *)
(* warn=True raise when the command fails or the host cannot be reached;   *)
(* every remote command is logged in dp_log with the step it belongs to.   *)
(***************************************************************************)
DeployEntry(step, cmd, rc) == [step |-> step, cmd |-> cmd, rc |-> rc]

\* Lines 46-56: the three calls made for one server.
RECURSIVE UploadCommands(_)
UploadCommands(n) ==
    IF n = 0
    THEN <<>>
    ELSE UploadCommands(n - 1) \o <<"put", "tar", "chown">>

\* The commands a step issues, in order (lines 30-34, 46-74, 78-81, 114-119).
StepCommands(step) ==
    IF step = "backup" THEN <<"mkdir", "cp", "stop">>
    ELSE IF step = "deploy"
         THEN UploadCommands(Len(dp_servers))
              \o <<"pip", "cp_conf", "daemon_reload">>
    ELSE IF step = "start" THEN <<"start", "enable">>
    ELSE <<"stop", "rm", "cp", "start">>

\* The step after a step that returned (lines 132-144).
StepAfter(step) ==
    IF step = "pre" THEN "backup"
    ELSE IF step = "backup" THEN "deploy"
    ELSE IF step = "deploy" THEN "start"
    ELSE "health"

\* Variant of RollbackNeeded: the handler rolls back after every failure.
RollbackNeeded_Always(bd) == TRUE

\* Line 151: `if backup_dir`
RollbackNeeded(bd) == bd # "None"

\* Nothing is in progress in deploy.
IdleDeploy ==
    /\ dp_servers = <<>>
    /\ backup_dir = "None"
    /\ dp_pc = "idle"
    /\ dp_cmd = 1
    /\ failed_servers = {}
    /\ failed_step = "none"
    /\ dp_log = <<>>
    /\ dp_result = "running"

\* Lines 126-131: backup_dir = None, then the try block is entered.
InitDeploy ==
    /\ dp_servers \in {[k \in 1..n |-> k] : n \in 1..MaxDeployServers}
    /\ backup_dir = "None"
    /\ dp_pc = "pre"
    /\ dp_cmd = 1
    /\ failed_servers = {}
    /\ failed_step = "none"
    /\ dp_log = <<>>
    /\ dp_result = "running"

\* Lines 148-155: the handler catches the exception of `step`: it starts the
\* rollback when backup_dir is set, and re-raises at once otherwise.
HandleFailure(step) ==
    /\ failed_step' = step
    /\ dp_cmd' = 1
    /\ IF RollbackNeeded(backup_dir)
       THEN dp_pc' = "rollback" /\ dp_result' = dp_result
       ELSE dp_pc' = "end" /\ dp_result' = "raised"

\* Lines 11-24 and 132: the disk check on the group; high usage on a server,
\* or a failure of the call, raises.
PreDeploymentChecks(out) ==
    /\ dp_pc = "pre"
    /\ dp_log' = Append(dp_log, DeployEntry("pre", "df", out))
    /\ IF out = "usage_ok"
       THEN /\ dp_pc' = "backup"
            /\ dp_cmd' = 1
            /\ UNCHANGED <<failed_step, dp_result>>
       ELSE HandleFailure("pre")
    /\ UNCHANGED <<dp_servers, backup_dir, failed_servers>>
    /\ UNCHANGED nonDeployVars

\* Lines 26-40, 42-74, 76-87: the next command of backup_current_version,
\* deploy_new_version or start_services.  backup_dir is bound only when
\* backup_current_version has returned (line 135).
StepCommand(rc) ==
    /\ dp_pc \in {"backup", "deploy", "start"}
    /\ dp_log' = Append(dp_log,
                        DeployEntry(dp_pc, StepCommands(dp_pc)[dp_cmd], rc))
    /\ IF rc = "raise"
       THEN HandleFailure(dp_pc) /\ backup_dir' = backup_dir
       ELSE /\ UNCHANGED <<failed_step, dp_result>>
            /\ IF dp_cmd < Len(StepCommands(dp_pc))
               THEN dp_pc' = dp_pc /\ dp_cmd' = dp_cmd + 1
                                   /\ backup_dir' = backup_dir
               ELSE /\ dp_pc' = StepAfter(dp_pc)
                    /\ dp_cmd' = 1
                    /\ backup_dir' = IF dp_pc = "backup" THEN "dir"
                                                        ELSE backup_dir
    /\ UNCHANGED <<dp_servers, failed_servers>>
    /\ UNCHANGED nonDeployVars

\* Lines 94-105: the curl probe of the next server (warn=True).
DeployHealthProbe(rc) ==
    /\ dp_pc = "health"
    /\ dp_cmd <= Len(dp_servers)
    /\ dp_log' = Append(dp_log, DeployEntry("health", "curl", rc))
    /\ IF rc = "raise"
       THEN HandleFailure("health") /\ failed_servers' = failed_servers
       ELSE /\ dp_cmd' = dp_cmd + 1
            /\ failed_servers' = IF rc = "nonzero"
                                 THEN failed_servers \cup {dp_servers[dp_cmd]}
                                 ELSE failed_servers
            /\ UNCHANGED <<dp_pc, failed_step, dp_result>>
    /\ UNCHANGED <<dp_servers, backup_dir>>
    /\ UNCHANGED nonDeployVars

\* Lines 107-108 and 146: health_check raises when a probe failed; otherwise
\* deploy returns.
HealthVerdict ==
    /\ dp_pc = "health"
    /\ dp_cmd = Len(dp_servers) + 1
    /\ IF failed_servers # {}
       THEN HandleFailure("health")
       ELSE /\ dp_pc' = "end"
            /\ dp_result' = "returned"
            /\ UNCHANGED <<failed_step, dp_cmd>>
    /\ UNCHANGED <<dp_servers, backup_dir, failed_servers, dp_log>>
    /\ UNCHANGED nonDeployVars

\* Lines 110-124 and 153-155: the next command of rollback; when one raises,
\* its exception leaves deploy, and after the last one `raise e` does.
RollbackCommand(rc) ==
    /\ dp_pc = "rollback"
    /\ dp_log' = Append(dp_log,
                        DeployEntry("rollback", StepCommands("rollback")[dp_cmd], rc))
    /\ IF rc = "ok" /\ dp_cmd < Len(StepCommands("rollback"))
       THEN dp_pc' = "rollback" /\ dp_cmd' = dp_cmd + 1 /\ dp_result' = dp_result
       ELSE dp_pc' = "end" /\ dp_cmd' = dp_cmd /\ dp_result' = "raised"
    /\ UNCHANGED <<dp_servers, backup_dir, failed_servers, failed_step>>
    /\ UNCHANGED nonDeployVars

NextDeploy ==
    \/ \E out \in {"usage_ok", "high_usage", "raise"} : PreDeploymentChecks(out)
    \/ \E rc \in GroupOutcomes : StepCommand(rc)
    \/ \E rc \in RunOutcomes : DeployHealthProbe(rc)
    \/ HealthVerdict
    \/ \E rc \in GroupOutcomes : RollbackCommand(rc)


(***************************************************************************)
(* CICDWebhookManager.deployment_pipeline,                                 *)
(* src/Requests/CICD Pipeline Webhook Manager.py lines 78-122.  Jenkins is *)
(* the environment: trigger_jenkins_build returns the started build or     *)
(* raises (no 201, timeout of the queue, a failed request);                *)
(* get_build_status reports a build that is still building or one that     *)
(* has finished with a result, or raises.                                  *)
(***************************************************************************)
Environments == {"staging", "production"}

\* Lines 79-83: job and stage of the three steps.
PipelineSteps(env) ==
    <<[job |-> "build-and-test", stage |-> "Build & Test"],
      [job |-> "security-scan", stage |-> "Security Scan"],
      [job |-> <<"deploy", env>>, stage |-> <<"Deploy to", env>>]>>

\* The values of build_info['result'] of a build that has finished.
BuildResults == {"SUCCESS", "FAILURE", "UNSTABLE", "ABORTED"}

StageEntry(stage, result) == [stage |-> stage, result |-> result]

\* Variant of StageFailed: an unstable or aborted build lets the pipeline go on.
StageFailed_OnlyFailure(result) == result = "FAILURE"

\* Line 110: `if status['result'] != 'SUCCESS'`
StageFailed(result) == result # "SUCCESS"

\* Nothing is in progress in deployment_pipeline.
IdlePipeline ==
    /\ environment = "none"
    /\ step_idx = 1
    /\ cp_pc = "idle"
    /\ pipeline_results = <<>>
    /\ triggered = <<>>
    /\ polls = <<>>

\* Lines 78-87: results = [] and the head of the for loop.
InitPipeline ==
    /\ environment \in Environments
    /\ step_idx = 1
    /\ cp_pc = "trigger"
    /\ pipeline_results = <<>>
    /\ triggered = <<>>
    /\ polls = <<>>

\* Lines 91-94 and 114-120: trigger_jenkins_build for the step; when it
\* raises, a FAILED entry is appended and the loop is left.
TriggerBuild(out) ==
    /\ cp_pc = "trigger"
    /\ triggered' = Append(triggered, PipelineSteps(environment)[step_idx].job)
    /\ polls' = Append(polls, 0)
    /\ IF out = "raise"
       THEN /\ pipeline_results' =
                  Append(pipeline_results,
                         StageEntry(PipelineSteps(environment)[step_idx].stage,
                                    "FAILED"))
            /\ cp_pc' = "return"
       ELSE /\ pipeline_results' = pipeline_results
            /\ cp_pc' = "poll"
    /\ UNCHANGED <<environment, step_idx>>
    /\ UNCHANGED nonPipelineVars

\* Lines 97-120: one get_build_status call of the waiting loop.  A build
\* that is still building is polled again after time.sleep(10); a finished
\* one gets its entry, and the loop over the steps goes on only after
\* SUCCESS; an exception gets a FAILED entry and leaves the loop.
PollStatus(st) ==
    /\ cp_pc = "poll"
    /\ polls' = [polls EXCEPT ![Len(polls)] = @ + 1]
    /\ IF st = "building"
       THEN /\ polls[Len(polls)] < MaxPolls
            /\ UNCHANGED <<pipeline_results, cp_pc, step_idx>>
       ELSE /\ pipeline_results' =
                  Append(pipeline_results,
                         StageEntry(PipelineSteps(environment)[step_idx].stage,
                                    IF st = "raise" THEN "FAILED" ELSE st))
            /\ IF st = "raise" \/ StageFailed(st)
                  \/ step_idx = Len(PipelineSteps(environment))
               THEN cp_pc' = "return" /\ step_idx' = step_idx
               ELSE cp_pc' = "trigger" /\ step_idx' = step_idx + 1
    /\ UNCHANGED <<environment, triggered>>
    /\ UNCHANGED nonPipelineVars

\* Line 122: return results
ReturnPipeline ==
    /\ cp_pc = "return"
    /\ cp_pc' = "returned"
    /\ UNCHANGED <<environment, step_idx, pipeline_results, triggered, polls>>
    /\ UNCHANGED nonPipelineVars

NextPipeline ==
    \/ \E out \in {"started", "raise"} : TriggerBuild(out)
    \/ \E st \in BuildResults \cup {"building", "raise"} : PollStatus(st)
    \/ ReturnPipeline

(***************************************************************************)
(* The caller.  No function of the orchestrator takes a cancellation       *)
(* argument and none of them reads any state a caller could set while it   *)
(* runs: a cancellation request changes nothing but the caller's wish.     *)
(***************************************************************************)
NotCancelled == cancel_requested = FALSE

RequestCancel ==
    /\ cancel_requested = FALSE
    /\ cancel_requested' = TRUE
    /\ UNCHANGED <<fleetVars, rolloutVars, healthVars, failoverVars,
                   substVars,
                   playbookVars,
                   deployVars,
                   pipelineVars>>

(***************************************************************************)
(* Specifications: one per operation of the orchestrator.                  *)
(***************************************************************************)
InitFleetRun ==
    /\ InitFleet(0..MaxTargets, 0..MaxRetries) /\ IdleRollout /\ IdleHealth
    /\ IdleFailover /\ IdleSubstitute /\ IdlePlaybook /\ IdleDeploy /\ IdlePipeline /\ NotCancelled

SpecFleet == InitFleetRun /\ [][NextFleet]_vars

InitRolloutRun ==
    /\ InitRollout(0..MaxServers, 1..MaxBatch) /\ IdleFleet /\ IdleHealth
    /\ IdleFailover /\ IdleSubstitute /\ IdlePlaybook /\ IdleDeploy /\ IdlePipeline /\ NotCancelled

SpecRollout == InitRolloutRun /\ [][NextRollout]_vars

\* rolling_restart called with any batch_size, the malformed ones included.
InitRolloutAnyBatchSize ==
    /\ InitRollout(0..MaxServers, (0 - 1)..MaxBatch) /\ IdleFleet /\ IdleHealth
    /\ IdleFailover /\ IdleSubstitute /\ IdlePlaybook /\ IdleDeploy /\ IdlePipeline /\ NotCancelled

SpecRolloutAnyBatchSize == InitRolloutAnyBatchSize /\ [][NextRollout]_vars

\* rolling_restart while its caller may ask for cancellation.
NextRolloutCancel ==
    \/ NextRollout
    \/ RequestCancel

SpecRolloutCancel == InitRolloutRun /\ [][NextRolloutCancel]_vars

InitSubstituteRun ==
    /\ InitSubstitute /\ IdleFleet /\ IdleRollout /\ IdleHealth /\ IdleFailover
    /\ IdlePlaybook /\ IdleDeploy /\ IdlePipeline /\ NotCancelled

SpecSubstitute == InitSubstituteRun /\ [][NextSubstitute]_vars

\* The scenario of a fan-out over one server more than the pool has workers,
\* with task.retries = 1: every connection opens, the command can fail only
\* on the first server and returns zero on the others.  The scenario follows
\* the workers until every runner has returned; the collecting loop of the
\* main thread changes no runner and is not part of it.
InitPool ==
    /\ InitFleet({max_workers + 1}, {1}) /\ IdleRollout /\ IdleHealth
    /\ IdleFailover /\ IdleSubstitute /\ IdlePlaybook /\ IdleDeploy /\ IdlePipeline /\ NotCancelled

PoolRunOutcomes(f) == IF f = 1 THEN {"zero", "nonzero"} ELSE {"zero"}

NextPool ==
    \/ Submit
    \/ \E f \in Futures : WorkerTake(f)
    \/ \E f \in Futures : EnterConnection(f, "ok")
    \/ \E f \in Futures : \E rc \in PoolRunOutcomes(f) : RunAttempt(f, rc)
    \/ \E f \in Futures : SleepDone(f)

SpecPool == InitPool /\ [][NextPool]_vars

InitPlaybookRun ==
    /\ InitPlaybook /\ IdleFleet /\ IdleRollout /\ IdleHealth /\ IdleFailover
    /\ IdleSubstitute /\ IdleDeploy /\ IdlePipeline /\ NotCancelled

SpecPlaybook == InitPlaybookRun /\ [][NextPlaybook]_vars

InitDeployRun ==
    /\ InitDeploy /\ IdleFleet /\ IdleRollout /\ IdleHealth /\ IdleFailover
    /\ IdleSubstitute /\ IdlePlaybook /\ IdlePipeline /\ NotCancelled

SpecDeploy == InitDeployRun /\ [][NextDeploy]_vars

InitPipelineRun ==
    /\ InitPipeline /\ IdleFleet /\ IdleRollout /\ IdleHealth /\ IdleFailover
    /\ IdleSubstitute /\ IdlePlaybook /\ IdleDeploy /\ NotCancelled

SpecPipeline == InitPipelineRun /\ [][NextPipeline]_vars

InitHealthRun ==
    /\ InitHealth(0..MaxGroup) /\ IdleFleet /\ IdleRollout /\ IdleFailover
    /\ IdleSubstitute /\ IdlePlaybook /\ IdleDeploy /\ IdlePipeline /\ NotCancelled

SpecHealth == InitHealthRun /\ [][NextHealth]_vars

\* The scenario of a fleet run over five servers with task.retries = 0.
InitScenario ==
    /\ InitFleet({5}, {0}) /\ IdleRollout /\ IdleHealth /\ IdleFailover
    /\ IdleSubstitute /\ IdlePlaybook /\ IdleDeploy /\ IdlePipeline /\ NotCancelled

InitFailoverRun ==
    /\ InitFailover(0..MaxFailoverGroup, 0..MaxFailoverGroup, 0..MaxServices)
    /\ IdleFleet /\ IdleRollout /\ IdleSubstitute /\ IdlePlaybook /\ IdleDeploy /\ IdlePipeline /\ NotCancelled

SpecFailover == InitFailoverRun /\ [][NextFailover]_vars

\* The steps of NextFleet that exist with task.retries = 0: `attempt <
\* task.retries` is then false in every iteration, so time.sleep is never
\* reached and SleepDone has no step.
NextScenario ==
    \/ Submit
    \/ \E f \in Futures : WorkerTake(f)
    \/ \E f \in Futures : \E co \in ConnectOutcomes : EnterConnection(f, co)
    \/ \E f \in Futures : \E rc \in RunOutcomes : RunAttempt(f, rc)
    \/ \E f \in Futures : AsCompleted(f)
    \/ ReturnResults

SpecScenario == InitScenario /\ [][NextScenario]_vars

(***************************************************************************)
(* Properties of execute_on_server and execute_task_on_servers.            *)
(***************************************************************************)
CommandStatuses == {"success", "failed", "error"}

EntriesOf(s) == {k \in DOMAIN results : results[k].server = s}

\* C1: a target whose every c.run returned a nonzero exit code has, once its
\* runner has returned, been executed exactly task.retries + 1 times, and its
\* outcome has status failed (with attempts = task.retries + 1); the entry
\* collected for it carries that status.
C1_AlwaysNonzeroRunsRetriesPlusOne ==
    \A f \in Futures :
        (fpc[f] = "done" /\ seen[f] = {"nonzero"}) =>
            /\ runs[f] = retries + 1
            /\ outcome[f] = [status |-> "failed", attempts |-> retries + 1]
            /\ \A k \in EntriesOf(servers[f]) : results[k].status = "failed"

C1_Witness ==
    \E f \in Futures :
        /\ fpc[f] = "done"
        /\ seen[f] = {"nonzero"}
        /\ retries = MaxRetries
        /\ runs[f] = MaxRetries + 1
        /\ f \in yielded

\* C2: when execute_task_on_servers returns, results holds exactly
\* Len(servers) entries, exactly one for each input server, each carrying the
\* status its runner returned, whatever the outcomes of the servers were.
C2_OneOutcomePerTarget ==
    mpc = "returned" =>
        /\ Len(results) = Len(servers)
        /\ \A f \in Futures :
              /\ Cardinality(EntriesOf(servers[f])) = 1
              /\ \A k \in EntriesOf(servers[f]) :
                    results[k].status = outcome[f].status

C2_Witness ==
    /\ mpc = "returned"
    /\ Len(servers) = MaxTargets
    /\ \E k \in DOMAIN results : results[k].status = "connection_error"
    /\ \E k \in DOMAIN results : results[k].status = "error"

\* C3 (as claimed): once a c.run call has raised for a target, the runner of
\* that target has returned: it neither sleeps nor runs the command again.
C3_RaisedCallNotRetried ==
    \A f \in Futures : "raise" \in seen[f] => fpc[f] = "done"

\* C4 (as claimed): in a returned run over 5 servers with task.retries = 0 in
\* which exactly one server's only c.run call raised and the other four ran
\* their command, results holds exactly one connection_error entry, it is that
\* server's, and the other four entries are success or failed.
C4_OneConnectionErrorOutcome ==
    \A t \in Futures :
        ( /\ mpc = "returned"
          /\ Len(servers) = 5
          /\ retries = 0
          /\ seen[t] = {"raise"}
          /\ runs[t] = 1
          /\ \A u \in Futures \ {t} :
                seen[u] \subseteq {"zero", "nonzero"} /\ runs[u] = 1 )
        =>
        ( /\ Len(results) = 5
          /\ \A k \in DOMAIN results :
                (results[k].status = "connection_error")
                    <=> (results[k].server = servers[t])
          /\ \A k \in DOMAIN results :
                results[k].server # servers[t]
                    => results[k].status \in {"success", "failed"} )

\* C5: the step in which c.run returns exit code zero makes the runner return
\* with status success, and from then on the command is never run again on
\* that target, whatever number of retries remains.
C5_SuccessStopsAttempts ==
    [][ \A f \in Futures :
          /\ "zero" \in seen'[f] =>
                /\ fpc'[f] = "done"
                /\ outcome'[f].status = "success"
                /\ outcome'[f].attempts = runs'[f]
          /\ "zero" \in seen[f] => runs'[f] = runs[f] /\ sleeps'[f] = sleeps[f]
      ]_vars

C5_Witness ==
    \E f \in Futures :
        /\ "zero" \in seen[f]
        /\ outcome[f].status = "success"
        /\ runs[f] = 1
        /\ retries = MaxRetries
        /\ f \in yielded

\* C6: at every moment a target has been executed at most task.retries + 1
\* times; a runner that returned success, failed or error executed it at
\* least once and reports the number of executions; with task.retries = 0
\* that is exactly one execution and time.sleep is never called.
C6_AttemptsBounded ==
    \A f \in Futures :
        /\ runs[f] <= retries + 1
        /\ outcome[f].status \in CommandStatuses =>
              /\ runs[f] >= 1
              /\ outcome[f].attempts = runs[f]
        /\ retries = 0 =>
              /\ sleeps[f] = 0
              /\ outcome[f].status \in CommandStatuses => runs[f] = 1

C6_Witness ==
    \E f \in Futures :
        /\ retries = 0
        /\ outcome[f].status = "error"
        /\ runs[f] = 1
        /\ sleeps[f] = 0

(***************************************************************************)
(* Properties of check_group_health.                                       *)
(***************************************************************************)
HealthJudged == health_result \notin {"idle", "pending"}

RespondingProbes == Cardinality({k \in DOMAIN probes : probes[k] = "zero"})

\* C7 (as claimed): a health check of a group with no servers ends with the
\* judgment False (unhealthy): it does not raise and does not report healthy.
C7_EmptyGroupUnhealthy ==
    (HealthJudged /\ Len(hg_servers) = 0) => health_result = "False"

\* C8: for a group with at least one server the check ends with a judgment,
\* which is True if and only if the servers whose uptime probe returned exit
\* code zero are at least 80% of the group (4/5 of it), the bound included.
C8_HealthyIffRatioAtLeastThreshold ==
    (HealthJudged /\ Len(hg_servers) > 0) =>
        /\ health_result \in {"True", "False"}
        /\ Len(probes) = Len(hg_servers)
        /\ (health_result = "True")
              <=> (5 * RespondingProbes >= 4 * Len(hg_servers))

C8_Witness ==
    /\ Len(hg_servers) = 5
    /\ RespondingProbes = 4
    /\ health_result = "True"

(***************************************************************************)
(* Properties of rolling_restart.                                          *)
(***************************************************************************)
PosOf(s) == CHOOSE p \in 1..Len(rr_servers) : rr_servers[p] = s

\* The number (from 0) of the batch servers[i:i + batch_size] that holds s.
BatchIndex(s) == (PosOf(s) - 1) \div batch_size

IssuedBefore(k, s, cmd, rc) ==
    \E m \in 1..(k - 1) : cmdlog[m] = LogEntry(s, cmd, rc)

\* C9: when a start command has failed on a server (nonzero exit code, or
\* the call raised), that start is the last command rolling_restart ever
\* issued, the rollout has ended in the batch of that server, and no command
\* of any kind has been issued to a server of a later batch; on a nonzero
\* exit code rolling_restart has returned False.
C9_StartFailureAbortsRollout ==
    \A k \in DOMAIN cmdlog :
        (cmdlog[k].cmd = "start" /\ cmdlog[k].rc # "zero") =>
            /\ rpc = "end"
            /\ cmdlog[k].rc = "nonzero" => rr_result = "False"
            /\ rr_result # "True"
            /\ k = Len(cmdlog)
            /\ i = BatchIndex(cmdlog[k].server) * batch_size
            /\ \A m \in DOMAIN cmdlog :
                  BatchIndex(cmdlog[m].server) <= BatchIndex(cmdlog[k].server)

C9_Witness ==
    /\ Len(rr_servers) = 4
    /\ batch_size = 2
    /\ rr_result = "False"
    /\ cmdlog[Len(cmdlog)] = LogEntry(rr_servers[2], "start", "nonzero")
    /\ IssuedBefore(Len(cmdlog), rr_servers[1], "start", "zero")

\* C10: commands are issued batch by batch in list order, and whenever a
\* command is issued to a server, every server of every earlier batch has
\* before that been started with exit code zero and probed (is-active) with
\* exit code zero, so that the earlier batch's health gate passed.
C10_NextBatchOnlyAfterBatchSucceeded ==
    \A k \in DOMAIN cmdlog :
        /\ \A m \in 1..(k - 1) :
              BatchIndex(cmdlog[m].server) <= BatchIndex(cmdlog[k].server)
        /\ \A p \in DOMAIN rr_servers :
              BatchIndex(rr_servers[p]) < BatchIndex(cmdlog[k].server) =>
                  /\ IssuedBefore(k, rr_servers[p], "start", "zero")
                  /\ IssuedBefore(k, rr_servers[p], "is-active", "zero")
                  /\ ~IssuedBefore(k, rr_servers[p], "is-active", "nonzero")
                  /\ ~IssuedBefore(k, rr_servers[p], "start", "nonzero")

C10_Witness ==
    /\ batch_size = 2
    /\ \E k \in DOMAIN cmdlog :
          /\ BatchIndex(cmdlog[k].server) = 1
          /\ cmdlog[k].cmd = "stop"
    /\ \E k \in DOMAIN cmdlog : cmdlog[k] = LogEntry(rr_servers[1], "stop", "nonzero")

(***************************************************************************)
(* Properties of disaster_recovery.                                        *)
(***************************************************************************)
\* The check of the backup group has ended (probes are those of its servers).
BackupAssessed == backup_healthy # "unknown"

\* The probes of the group last checked do not make a healthy group: the
\* group is empty or fewer than 80% of its servers responded.
ProbedGroupNotHealthy ==
    \/ Len(hg_servers) = 0
    \/ 5 * RespondingProbes < 4 * Len(hg_servers)

ActivationIssued == dr_log # <<>>

\* C11: once the backup group has been checked and is not healthy,
\* disaster_recovery has ended by raising (the refusal, when the group has
\* servers), whatever the health of the primary group, and it never returns
\* True; no start or enable command is ever issued to the backup servers
\* unless the backup group was judged healthy.
C11_UnhealthyStandbyRefused ==
    /\ (BackupAssessed /\ ProbedGroupNotHealthy) =>
          /\ dr_pc = "end"
          /\ dr_result \in {"refused", "raised"}
          /\ Len(hg_servers) > 0 => dr_result = "refused"
          /\ ~ActivationIssued
    /\ (ActivationIssued \/ dr_result = "True") =>
          /\ backup_healthy = "True"
          /\ ~ProbedGroupNotHealthy

C11_Witness ==
    /\ BackupAssessed
    /\ Len(hg_servers) = 2
    /\ RespondingProbes = 1
    /\ primary_healthy = "True"
    /\ dr_result = "refused"

\* C12 (as claimed): when both groups were judged healthy, no start or enable
\* command is issued to the backup servers; the code has no confirmation
\* input that could allow one.
C12_HealthyPrimaryNeedsConfirmation ==
    (primary_healthy = "True" /\ backup_healthy = "True") => ~ActivationIssued

\* C13 (as claimed): when the backup group was judged healthy and the primary
\* group unhealthy, disaster_recovery ends by returning True after having
\* started and enabled every configured service on the backup servers.
C13_ProceedActivatesStandby ==
    (dr_pc = "end" /\ backup_healthy = "True" /\ primary_healthy = "False") =>
        /\ dr_result = "True"
        /\ \A k \in DOMAIN services :
              /\ \E m \in DOMAIN dr_log :
                    dr_log[m] = GroupEntry(services[k], "start", "ok")
              /\ \E m \in DOMAIN dr_log :
                    dr_log[m] = GroupEntry(services[k], "enable", "ok")

(***************************************************************************)
(* Independence of the targets of execute_task_on_servers.                 *)
(***************************************************************************)
RunnerState(f) == <<fpc[f], attempt[f], runs[f], sleeps[f], seen[f], outcome[f]>>

AllStatuses == {"success", "failed", "error", "connection_error"}

InBatch(s, k) == \E p \in DOMAIN batches[k] : batches[k][p] = s

SameBatch(s, t) == BatchIndex(s) = BatchIndex(t)

\* C15: a stop command that returned a nonzero exit code ends nothing: while
\* it is the last command issued the rollout is still running in that batch,
\* and the command issued next is the stop of the next server of the batch
\* or, after the last server of the batch, the start of the batch's first
\* server; every start is preceded by a stop of every server of its batch.
C15_FailedStopDoesNotAbort ==
    /\ \A k \in DOMAIN cmdlog :
          (cmdlog[k].cmd = "stop" /\ cmdlog[k].rc = "nonzero") =>
              /\ k = Len(cmdlog) =>
                    /\ rr_result = "running"
                    /\ rpc \in {"stop", "stop_wait", "start"}
              /\ k < Len(cmdlog) =>
                    /\ SameBatch(cmdlog[k + 1].server, cmdlog[k].server)
                    /\ \/ /\ cmdlog[k + 1].cmd = "stop"
                          /\ PosOf(cmdlog[k + 1].server)
                                = PosOf(cmdlog[k].server) + 1
                       \/ /\ cmdlog[k + 1].cmd = "start"
                          /\ PosOf(cmdlog[k + 1].server)
                                = BatchIndex(cmdlog[k].server) * batch_size + 1
    /\ \A k \in DOMAIN cmdlog :
          cmdlog[k].cmd = "start" =>
              \A p \in DOMAIN rr_servers :
                  SameBatch(rr_servers[p], cmdlog[k].server) =>
                      \E m \in 1..(k - 1) :
                          /\ cmdlog[m].server = rr_servers[p]
                          /\ cmdlog[m].cmd = "stop"
                          /\ cmdlog[m].rc # "raise"

C15_Witness ==
    /\ batch_size = 2
    /\ Len(cmdlog) >= 4
    /\ cmdlog[1] = LogEntry(rr_servers[1], "stop", "nonzero")
    /\ cmdlog[2] = LogEntry(rr_servers[2], "stop", "zero")
    /\ cmdlog[3] = LogEntry(rr_servers[1], "start", "zero")
    /\ cmdlog[4] = LogEntry(rr_servers[2], "start", "zero")

\* The batch being processed, or processed last.
LastBatch == batches[Len(batches)]

ProbeOf(s, rc) == \E m \in DOMAIN cmdlog : cmdlog[m] = LogEntry(s, "is-active", rc)

RespondingInLastBatch ==
    Cardinality({p \in DOMAIN LastBatch : ProbeOf(LastBatch[p], "zero")})

\* Every server of the last batch has been probed and the gate has decided.
GateDecided ==
    /\ batches # <<>>
    /\ rpc \notin {"health", "gate"}
    /\ \A p \in DOMAIN LastBatch :
          ProbeOf(LastBatch[p], "zero") \/ ProbeOf(LastBatch[p], "nonzero")

AbortedAtGate ==
    /\ rr_result = "False"
    /\ cmdlog # <<>>
    /\ cmdlog[Len(cmdlog)].cmd = "is-active"

RECURSIVE Flatten(_)
Flatten(bs) == IF bs = <<>> THEN <<>> ELSE Head(bs) \o Flatten(Tail(bs))

\* C17: for batch_size >= 1 the k-th batch formed is the slice of the server
\* list that starts right after the (k-1)-th one, it has between 1 and
\* batch_size servers and exactly batch_size unless it reaches the end of the
\* list, the batches formed so far concatenate to a prefix of the server list
\* (so no server is in two batches), and when the rollout returns True they
\* concatenate to the whole list.
C17_BatchesPartitionServers ==
    batch_size >= 1 =>
        /\ \A k \in DOMAIN batches :
              /\ batches[k] = SubSeq(rr_servers, (k - 1) * batch_size + 1,
                                     Min(k * batch_size, Len(rr_servers)))
              /\ Len(batches[k]) >= 1
              /\ Len(batches[k]) <= batch_size
              /\ k * batch_size <= Len(rr_servers)
                    => Len(batches[k]) = batch_size
              /\ k < Len(batches) => Len(batches[k]) = batch_size
        /\ Len(Flatten(batches)) <= Len(rr_servers)
        /\ Flatten(batches) = SubSeq(rr_servers, 1, Len(Flatten(batches)))
        /\ rr_result = "True" => Flatten(batches) = rr_servers

C17_Witness ==
    /\ rr_result = "True"
    /\ Len(rr_servers) = 5
    /\ batch_size = 2
    /\ batches = << <<1, 2>>, <<3, 4>>, <<5>> >>

\* C18 (as claimed): rolling_restart called with batch_size <= 0 on a group
\* that has servers ends by raising before any command is issued; it does
\* not return True.
C18_MalformedBatchSizeFailsFast ==
    (batch_size <= 0 /\ Len(rr_servers) > 0 /\ rpc = "end") =>
        /\ rr_result = "raised"
        /\ cmdlog = <<>>

\* C19 (as claimed): rolling_restart ends by returning True (succeeded) or
\* False (aborted); an unreachable server in the stop, start or health phase
\* does not make it end with an exception.
C19_RolloutEndsInDeclaredState ==
    /\ rr_result # "raised"
    /\ rpc = "end" => rr_result \in {"True", "False"}

\* C20 (as claimed): once the caller has requested cancellation, no new batch
\* is started.
C20_NoNewBatchAfterCancel ==
    [][ cancel_requested => Len(batches') = Len(batches) ]_vars

(***************************************************************************)
(* Order of the attempts of one runner.                                    *)
(***************************************************************************)
\* C23 (as claimed): a runner is about to execute attempt k+1 only when it
\* has executed k attempts and slept k times, a further attempt is taken only
\* after attempts that all returned a nonzero exit code, and a runner that
\* returned success, failed or error slept once between consecutive attempts
\* and not after the last one.
C23_NextAttemptOnlyAfterNonzero ==
    \A f \in Futures :
        /\ fpc[f] = "loop" =>
              /\ runs[f] = attempt[f]
              /\ sleeps[f] = attempt[f]
        /\ fpc[f] = "sleep" =>
              /\ runs[f] = attempt[f] + 1
              /\ sleeps[f] = attempt[f] + 1
        /\ (fpc[f] = "sleep" \/ (fpc[f] = "loop" /\ attempt[f] >= 1)) =>
              seen[f] = {"nonzero"}
        /\ outcome[f].status \in CommandStatuses => sleeps[f] = runs[f] - 1

(***************************************************************************)
(* Order of the phases of rolling_restart.                                 *)
(***************************************************************************)
\* C24: whenever a start command is issued to a server, a stop command has
\* before that been issued to every server of its batch, and whenever a
\* health probe (is-active) is issued to a server, the start command has
\* before that returned exit code zero on every server of its batch.
C24_PhasesInOrder ==
    \A k \in DOMAIN cmdlog :
        \A p \in DOMAIN rr_servers :
            SameBatch(rr_servers[p], cmdlog[k].server) =>
                /\ cmdlog[k].cmd = "start" =>
                      \E m \in 1..(k - 1) :
                          /\ cmdlog[m].server = rr_servers[p]
                          /\ cmdlog[m].cmd = "stop"
                /\ cmdlog[k].cmd = "is-active" =>
                      /\ IssuedBefore(k, rr_servers[p], "start", "zero")
                      /\ \E m \in 1..(k - 1) :
                            /\ cmdlog[m].server = rr_servers[p]
                            /\ cmdlog[m].cmd = "stop"

C24_Witness ==
    /\ batch_size = 3
    /\ Len(rr_servers) >= 3
    /\ Len(cmdlog) >= 7
    /\ cmdlog[3].cmd = "stop"
    /\ cmdlog[4] = LogEntry(rr_servers[1], "start", "zero")
    /\ cmdlog[6] = LogEntry(rr_servers[3], "start", "zero")
    /\ cmdlog[7].cmd = "is-active"

\* Servers not yet in any batch remain.
MoreBatchesRemain == Len(Flatten(batches)) < Len(rr_servers)

\* Every server of every batch formed so far returned zero on its probe.
EveryBatchPassed ==
    \A k \in DOMAIN batches :
        \A p \in DOMAIN batches[k] : ProbeOf(batches[k][p], "zero")

\* C25: a step of the health gate that lets the batch pass goes to the
\* inter-batch wait if and only if servers outside the batches formed so far
\* remain, the rollout is in the inter-batch wait only when such servers
\* remain and every batch so far passed, after the last batch the loop ends
\* with the return of True and no wait, and the rollout has returned True
\* only if the batches cover the server list and every one of them passed.
C25_WaitOnlyBetweenBatches ==
    /\ [](/\ rpc = "batch_wait" => (MoreBatchesRemain /\ EveryBatchPassed)
          /\ rr_result = "True" =>
                /\ Flatten(batches) = rr_servers
                /\ EveryBatchPassed
                /\ rpc = "end"
          /\ (rpc = "loop" /\ ~MoreBatchesRemain) =>
                ENABLED (BeginBatch /\ rr_result' = "True"))
    /\ [][ (rpc = "gate" /\ rr_result' = "running") =>
              /\ (rpc' = "batch_wait") <=> MoreBatchesRemain
              /\ (rpc' = "loop") <=> ~MoreBatchesRemain
         ]_vars

C25_Witness ==
    /\ rr_result = "True"
    /\ Len(rr_servers) = 3
    /\ Len(batches) = 2
    /\ Len(batches[2]) = 1

CommandsOf(s, cmd) ==
    {m \in DOMAIN cmdlog : cmdlog[m].server = s /\ cmdlog[m].cmd = cmd}

\* C26: no server is issued the same command (stop, start, is-active) twice,
\* and once rolling_restart has ended (returned False, returned True or
\* raised) no command is issued any more.
C26_AbortIsFinal ==
    /\ [](\A p \in DOMAIN rr_servers :
             \A cmd \in {"stop", "start", "is-active"} :
                 Cardinality(CommandsOf(rr_servers[p], cmd)) <= 1)
    /\ [][ rr_result # "running" =>
              /\ cmdlog' = cmdlog
              /\ rr_result' = rr_result
              /\ batches' = batches ]_vars
    /\ [](rr_result = "False" => rpc = "end")

C26_Witness ==
    /\ rr_result = "False"
    /\ Len(batches) = 2
    /\ cmdlog[Len(cmdlog)].cmd = "is-active"
    /\ Len(rr_servers) > Len(Flatten(batches))

\* C27: when a start command has returned a nonzero exit code on a server,
\* rolling_restart has returned False with that start as its last command:
\* every server after it in the same batch has been issued stop, and has
\* been issued neither start nor is-active; no server of the batch has been
\* probed.
C27_FailedStartLeavesRestStopped ==
    \A k \in DOMAIN cmdlog :
        cmdlog[k] = LogEntry(cmdlog[k].server, "start", "nonzero") =>
            /\ k = Len(cmdlog)
            /\ rpc = "end"
            /\ rr_result = "False"
            /\ \A p \in DOMAIN rr_servers :
                  SameBatch(rr_servers[p], cmdlog[k].server) =>
                      /\ CommandsOf(rr_servers[p], "is-active") = {}
                      /\ p > PosOf(cmdlog[k].server) =>
                            /\ CommandsOf(rr_servers[p], "stop") # {}
                            /\ CommandsOf(rr_servers[p], "start") = {}

C27_Witness ==
    /\ batch_size = 3
    /\ Len(rr_servers) >= 3
    /\ Len(cmdlog) = 4
    /\ cmdlog[3] = LogEntry(rr_servers[3], "stop", "zero")
    /\ cmdlog[4] = LogEntry(rr_servers[1], "start", "nonzero")
    /\ rr_result = "False"

(***************************************************************************)
(* Properties of substitute_variables.                                     *)
(***************************************************************************)
IsBound(name, vs) == \E k \in DOMAIN vs : vs[k].name = name

ValueOf(name, vs) == Str(vs[CHOOSE k \in DOMAIN vs : vs[k].name = name].value)

\* The command in which every token of a bound name stands replaced by the
\* bound value, and everything else stands as it was.
RECURSIVE Substituted(_, _)
Substituted(str, vs) ==
    IF str = <<>>
    THEN <<>>
    ELSE IF /\ Len(str) >= 3
            /\ str[1] = "{"
            /\ str[3] = "}"
            /\ IsBound(<<str[2]>>, vs)
         THEN ValueOf(<<str[2]>>, vs) \o Substituted(SubSeq(str, 4, Len(str)), vs)
         ELSE <<Head(str)>> \o Substituted(Tail(str), vs)

\* C21 (as claimed): the returned command is the command of the call with
\* every {name} token of a bound name replaced by the bound value and every
\* other character, the tokens of unbound names included, left as it was.
C21_BoundTokensReplacedOthersVerbatim ==
    sub_pc = "returned" => command = Substituted(original_command, variables)

(***************************************************************************)
(* The worker pool of execute_task_on_servers.                             *)
(***************************************************************************)
\* C22: at every moment at most max_workers (10) runners are in progress, a
\* runner counting as in progress from the moment a worker takes it until it
\* returns, its attempts and its sleeps included; a target waits in the
\* queue exactly while no worker has taken it, and a runner that has begun
\* (it has executed or slept) is in progress or has returned, never back in
\* the queue.
C22_PoolBoundsRunnersInProgress ==
    /\ Cardinality(Busy) <= max_workers
    /\ \A f \in Futures :
          /\ fpc[f] = "queued" <=> (\E k \in DOMAIN queue : queue[k] = f)
          /\ fpc[f] \in {"new", "queued"} =>
                (runs[f] = 0 /\ sleeps[f] = 0 /\ outcome[f] = NoOutcome)
          /\ (runs[f] > 0 \/ sleeps[f] > 0) => (f \in Busy \/ fpc[f] = "done")

C22_Witness ==
    /\ Len(servers) = max_workers + 1
    /\ Cardinality(Busy) = max_workers
    /\ queue # <<>>
    /\ fpc[1] = "sleep"

(***************************************************************************)
(* Properties of run_playbook.                                             *)
(***************************************************************************)
\* The list holds exactly one outcome for every target server.
OneOutcomePerTarget(res) ==
    /\ Len(res) = Len(target_servers)
    /\ \A p \in DOMAIN target_servers :
          \E k \in DOMAIN res : res[k].server = target_servers[p]

\* The last index of the task list at which a task of that name stands.
LastTaskNamed(nm, n) ==
    CHOOSE k \in 1..n :
        /\ tasks[k].name = nm
        /\ \A m \in (k + 1)..n : tasks[m].name # nm

\* C28: the calls of the fan-out are made in list order, one per task; while
\* the fan-out of a task is running, and at every other moment, every
\* earlier task has returned a list with one outcome for every target
\* server, whatever the statuses in it; the playbook returns only when every
\* task of the list has been executed, and the returned dict has one entry
\* per distinct task name, the list returned for the last task of that name.
C28_TasksInOrderWithBarrier ==
    /\ Len(task_history) = task_idx
    /\ task_idx <= Len(tasks)
    /\ \A k \in DOMAIN task_history : OneOutcomePerTarget(task_history[k])
    /\ pb_pc = "call" =>
          /\ task_idx < Len(tasks)
          /\ retries = tasks[task_idx + 1].retries
          /\ servers = target_servers
    /\ pb_pc # "call" => (mpc = "idle" /\ submitted = 0)
    /\ pb_pc # "raised"
    /\ DOMAIN playbook_results = {tasks[k].name : k \in 1..task_idx}
    /\ \A nm \in DOMAIN playbook_results :
          playbook_results[nm] = task_history[LastTaskNamed(nm, task_idx)]
    /\ pb_pc = "returned" => task_idx = Len(tasks)

C28_Witness ==
    /\ pb_pc = "returned"
    /\ Len(tasks) = 2
    /\ Len(target_servers) = 2
    /\ tasks[1].name # tasks[2].name
    /\ \E k \in 1..2 : task_history[1][k] = [server |-> 1, status |-> "connection_error"]
    /\ \E k \in 1..2 : task_history[1][k] = [server |-> 2, status |-> "failed"]
    /\ \E k \in 1..2 : task_history[2][k] = [server |-> 1, status |-> "success"]
    /\ \E k \in 1..2 : task_history[2][k] = [server |-> 2, status |-> "error"]

(***************************************************************************)
(* Properties of DeploymentManager.deploy.                                 *)
(***************************************************************************)
StepRank(step) ==
    IF step = "pre" THEN 1
    ELSE IF step = "backup" THEN 2
    ELSE IF step = "deploy" THEN 3
    ELSE IF step = "start" THEN 4
    ELSE IF step = "health" THEN 5
    ELSE 6

RollbackRan == \E k \in DOMAIN dp_log : dp_log[k].step = "rollback"

\* The commands of the step have all been issued and none of them raised.
StepReturned(step) ==
    /\ \A c \in {StepCommands(step)[k] : k \in DOMAIN StepCommands(step)} :
          \E k \in DOMAIN dp_log : dp_log[k] = DeployEntry(step, c, "ok")
    /\ \A k \in DOMAIN dp_log : dp_log[k].step = step => dp_log[k].rc = "ok"

\* C29: the commands are issued in the order of the steps pre-checks,
\* backup, deploy, start, health check, rollback; a command of the steps
\* before the rollback is issued only if no earlier command raised and the
\* pre-checks found no high usage; the rollback is run if and only if deploy
\* failed in a step after backup_current_version had returned (so not after
\* a failure of the pre-checks or of a command of the backup step, the
\* service stop included); a deploy that failed ends with an exception, and
\* a deploy that returned failed nowhere and ran no rollback.
C29_RollbackOnlyAfterBackupReturned ==
    /\ \A k \in DOMAIN dp_log : \A m \in 1..(k - 1) :
          /\ StepRank(dp_log[m].step) <= StepRank(dp_log[k].step)
          /\ dp_log[k].step # "rollback" =>
                dp_log[m].rc \in {"ok", "usage_ok", "zero", "nonzero"}
    /\ failed_step # "none" =>
          /\ dp_result # "returned"
          /\ dp_pc \in {"rollback", "end"}
          /\ dp_pc = "end" => dp_result = "raised"
          /\ RollbackRan <=>
                (dp_pc = "end" \/ dp_cmd > 1) /\ failed_step \in {"deploy", "start", "health"}
          /\ failed_step \in {"deploy", "start", "health"} <=> backup_dir = "dir"
    /\ backup_dir = "dir" <=>
          (StepReturned("backup") /\ dp_pc \notin {"pre", "backup"})
    /\ RollbackRan =>
          /\ failed_step \in {"deploy", "start", "health"}
          /\ StepReturned("backup")
    /\ dp_result = "returned" =>
          /\ failed_step = "none"
          /\ ~RollbackRan
          /\ StepReturned("backup")
          /\ StepReturned("deploy")
          /\ StepReturned("start")
          /\ failed_servers = {}
          /\ dp_pc = "end"
    /\ dp_result = "raised" => (failed_step # "none" /\ dp_pc = "end")

C29_Witness ==
    /\ dp_result = "raised"
    /\ failed_step = "health"
    /\ failed_servers = {2}
    /\ dp_log[Len(dp_log)] = DeployEntry("rollback", "start", "ok")

(***************************************************************************)
(* Properties of CICDWebhookManager.deployment_pipeline.                   *)
(***************************************************************************)
\* C30: the jobs triggered so far are the first jobs of the fixed list
\* build-and-test, security-scan, deploy-<environment>, in that order; a job
\* is triggered only when every earlier stage has an entry with result
\* SUCCESS; the entries are those of the triggered stages in order, at most
\* one per stage, and only the last entry can have a result other than
\* SUCCESS; when the loop has been left every triggered stage has its entry,
\* and either all three stages succeeded or the last entry is that of the
\* stage that failed or raised.
C30_StagesInOrderStopAtFirstFailure ==
    /\ Len(triggered) <= Len(PipelineSteps(environment))
    /\ \A k \in DOMAIN triggered :
          /\ triggered[k] = PipelineSteps(environment)[k].job
          /\ \A m \in 1..(k - 1) :
                /\ m <= Len(pipeline_results)
                /\ pipeline_results[m].result = "SUCCESS"
    /\ Len(pipeline_results) <= Len(triggered)
    /\ Len(pipeline_results) >= Len(triggered) - 1
    /\ \A k \in DOMAIN pipeline_results :
          /\ pipeline_results[k].stage = PipelineSteps(environment)[k].stage
          /\ k < Len(pipeline_results) => pipeline_results[k].result = "SUCCESS"
    /\ cp_pc \in {"return", "returned"} =>
          /\ Len(pipeline_results) = Len(triggered)
          /\ Len(pipeline_results) >= 1
          /\ \/ /\ Len(pipeline_results) = Len(PipelineSteps(environment))
                /\ pipeline_results[Len(pipeline_results)].result = "SUCCESS"
             \/ pipeline_results[Len(pipeline_results)].result # "SUCCESS"

C30_Witness ==
    /\ cp_pc = "returned"
    /\ triggered = <<"build-and-test", "security-scan">>
    /\ Len(pipeline_results) = 2
    /\ pipeline_results[1].result = "SUCCESS"
    /\ pipeline_results[2].result = "UNSTABLE"
    /\ polls = <<1, 2>>

====
